---- MODULE Spec2Model ----
(***************************************************************************)
(* Command catalog, signature extraction, context resolution and snippet   *)
(* synthesis of the PackageDev command completions (commands.py and        *)
(* keymap_completion.py).                                                  *)
(*                                                                         *)
(* Text is modelled character by character: a text is a sequence of        *)
(* one-character strings, and Str turns such a sequence into one string.   *)
(***************************************************************************)
EXTENDS Integers, Sequences, FiniteSets, TLC

VARIABLES
    clsname,      \* get_command_name: the class identifier handed in
    canonOut,     \* get_command_name: the value returned (Unset before the call)
    exClass,      \* extract_command_args: the command class handed in
    exOut,        \* extract_command_args: the list returned (Unset before the call)
    synthArgs,    \* create_arg_snippet_by_command_args: command_args
    synthJson,    \* create_arg_snippet_by_command_args: for_json
    synthItems,   \* the strings make_snippet_value yielded, in order
    synthOut,     \* the snippet returned
    nextI,        \* the attribute _next_i.i of the closure of the last call
    resources,    \* what sublime.find_resources / load_resource deliver now
    metaResult,   \* get_builtin_command_meta_data.result (Unset: no such attribute)
    cache,        \* get_builtin_commands.cache
    classes,      \* sublime_plugin's registered command classes, by type
    returned,     \* per command type, the names the last lookup returned
    ret           \* what the last query or call returned

canonVars == <<clsname, canonOut>>
exVars == <<exClass, exOut>>
synthVars == <<synthArgs, synthJson, synthItems, synthOut, nextI>>
catVars == <<resources, metaResult, cache, classes, returned, ret>>
vars == <<clsname, canonOut, exClass, exOut, synthArgs, synthJson, synthItems,
          synthOut, nextI, resources, metaResult, cache, classes, returned, ret>>

\* ret before any call
NoCall == [op |-> "none"]

\* A slot that may hold no value yet (an unset attribute, None, no call so far).
Unset == [set |-> FALSE]
Some(v) == [set |-> TRUE, v |-> v]

-----------------------------------------------------------------------------
(* Characters and strings *)

UpperAlpha == <<"A","B","C","D","E","F","G","H","I","J","K","L","M",
                "N","O","P","Q","R","S","T","U","V","W","X","Y","Z">>
LowerAlpha == <<"a","b","c","d","e","f","g","h","i","j","k","l","m",
                "n","o","p","q","r","s","t","u","v","w","x","y","z">>
Digits == <<"0","1","2","3","4","5","6","7","8","9">>

\* str.isupper() of one character
IsUpper(c) == \E i \in DOMAIN UpperAlpha : UpperAlpha[i] = c

\* str.lower() of one character
Lower(c) ==
    IF IsUpper(c)
    THEN LowerAlpha[CHOOSE i \in DOMAIN UpperAlpha : UpperAlpha[i] = c]
    ELSE c

\* the characters of a text as one string
RECURSIVE Str(_)
Str(s) == IF s = <<>> THEN "" ELSE Head(s) \o Str(Tail(s))

\* the concatenation of a sequence of texts
RECURSIVE Flatten(_)
Flatten(ss) == IF ss = <<>> THEN <<>> ELSE Head(ss) \o Flatten(Tail(ss))

\* str.endswith
EndsWith(s, suffix) ==
    /\ Len(s) >= Len(suffix)
    /\ SubSeq(s, Len(s) - Len(suffix) + 1, Len(s)) = suffix

-----------------------------------------------------------------------------
(* get_command_name *)

CommandSuffix == <<"_","c","o","m","m","a","n","d">>

\* the loop over clsname[1:], carrying name and last_upper
RECURSIVE CanonWalk(_, _, _)
CanonWalk(rest, name, last_upper) ==
    IF rest = <<>> THEN name
    ELSE LET c == Head(rest) IN
         CanonWalk(Tail(rest),
                   IF IsUpper(c) /\ ~last_upper
                   THEN name \o <<"_", Lower(c)>>
                   ELSE name \o <<c>>,
                   IsUpper(c))

\* name[0:-8] when name ends with "_command"
StripCommand(name) ==
    IF EndsWith(name, CommandSuffix)
    THEN SubSeq(name, 1, Len(name) - 8)
    ELSE name

\* a slip: last_upper starts as the case of the first character
get_command_name_firstcounts(cls) ==
    StripCommand(CanonWalk(Tail(cls), <<Lower(cls[1])>>, IsUpper(cls[1])))

get_command_name(cls) ==
    StripCommand(CanonWalk(Tail(cls), <<Lower(cls[1])>>, FALSE))

\* The identifiers tried: up to MaxPieces pieces, one after the other.
MaxPieces == 3
Pieces == { <<"F","o","o">>, <<"B","a","r">>, <<"R","u","n">>,
            <<"C","o","m","m","a","n","d">>, <<"_","c","o","m","m","a","n","d">>,
            <<"H","T","T","P">>, <<"X">>, <<"a">>, <<"_">>, <<"2">> }

RECURSIVE PieceSeqs(_)
PieceSeqs(n) ==
    IF n = 0 THEN {<<>>}
    ELSE PieceSeqs(n - 1) \cup
         { p \o q : p \in Pieces, q \in PieceSeqs(n - 1) }

Identifiers == PieceSeqs(MaxPieces) \ {<<>>}

-----------------------------------------------------------------------------
(* Command classes and extract_command_args *)

\* Default values of run() parameters and of the metadata's args.
VInt(n) == [ty |-> "int", n |-> n]
VStr(s) == [ty |-> "str", s |-> s]
VBool(b) == [ty |-> "bool", b |-> b]
VNone == [ty |-> "none"]
VDict == [ty |-> "dict"]

\* A command class: __name__, __module__, the sublime_plugin base class it
\* derives from, and inspect.getfullargspec(run): args and defaults.
Class(name, module, kind, args, defaults) ==
    [name |-> name, module |-> module, kind |-> kind,
     args |-> args, defaults |-> defaults]

Reverse(s) == [i \in 1..Len(s) |-> s[Len(s) + 1 - i]]

\* s[n:]
DropFirst(s, n) == IF Len(s) <= n THEN <<>> ELSE SubSeq(s, n + 1, Len(s))

\* a slip: the defaults are not reversed, so they pair from the front
extract_command_args_front(c) ==
    LET defaults == c.defaults
        rargs == Reverse(c.args)
        paired == [i \in 1..Len(rargs) |->
                     IF Len(defaults) > i - 1
                     THEN <<rargs[i], defaults[i]>>
                     ELSE <<rargs[i]>>]
        command_args == Reverse(paired)
    IN IF c.kind = "text" THEN DropFirst(command_args, 2)
       ELSE DropFirst(command_args, 1)

extract_command_args(c) ==
    LET defaults == Reverse(c.defaults)
        rargs == Reverse(c.args)
        \* enumerate() counts from 0: element i of the list is index i - 1
        paired == [i \in 1..Len(rargs) |->
                     IF Len(defaults) > i - 1
                     THEN <<rargs[i], defaults[i]>>
                     ELSE <<rargs[i]>>]
        command_args == Reverse(paired)
    IN IF c.kind = "text" THEN DropFirst(command_args, 2)
       ELSE DropFirst(command_args, 1)

-----------------------------------------------------------------------------
(* create_arg_snippet_by_command_args *)

\* _next_i(): attr is the closure's attribute i (0: no such attribute yet);
\* gives the index handed out and the attribute afterwards.
\* a slip: the attribute is not incremented
_next_i_stuck(attr) ==
    LET i == IF attr = 0 THEN 1 ELSE attr
    IN [i |-> i, attr |-> i]

_next_i(attr) ==
    LET i == IF attr = 0 THEN 1 ELSE attr
    IN [i |-> i, attr |-> i + 1]

\* def _next_i() makes a new function object in every call of
\* create_arg_snippet_by_command_args: it has no attribute i.
NewClosureAttr == 0

\* v.replace("}", "\}") on the characters of v
escape_in_snippet(v) ==
    Flatten([j \in 1..Len(v) |-> IF v[j] = "}" THEN <<"\\", "}">> ELSE <<v[j]>>])

\* json.dumps(v), as characters
JsonDumps(v) ==
    CASE v.ty = "int" -> <<ToString(v.n)>>
      [] v.ty = "bool" -> IF v.b THEN <<"true">> ELSE <<"false">>
      [] v.ty = "none" -> <<"null">>
      [] v.ty = "dict" -> <<"{", "}">>

\* str(v), as characters
PyStr(v) ==
    CASE v.ty = "int" -> <<ToString(v.n)>>
      [] v.ty = "bool" -> IF v.b THEN <<"True">> ELSE <<"False">>
      [] v.ty = "none" -> <<"None">>
      [] v.ty = "dict" -> <<"{", "}">>

Quoted(k) == "\"" \o k \o "\""

\* a slip: the empty placeholder of a call-literal snippet is left unquoted
make_snippet_value_bare(kv, i, for_json) ==
    LET k == kv[1]
        v == IF Len(kv) >= 2
             THEN IF kv[2].ty = "str"
                  THEN "\"${" \o ToString(i) \o ":"
                         \o Str(escape_in_snippet(kv[2].s)) \o "}\""
                  ELSE LET dumps == IF for_json THEN JsonDumps(kv[2])
                                    ELSE PyStr(kv[2])
                       IN "${" \o ToString(i) \o ":"
                            \o Str(escape_in_snippet(dumps)) \o "}"
             ELSE IF for_json THEN "\"$" \o ToString(i) \o "\""
                  ELSE "$" \o ToString(i)
    IN Quoted(k) \o ": " \o v

\* make_snippet_value(kv), with i the value its call of _next_i() returned
make_snippet_value(kv, i, for_json) ==
    LET k == kv[1]
        v == IF Len(kv) >= 2
             THEN IF kv[2].ty = "str"
                  THEN "\"${" \o ToString(i) \o ":"
                         \o Str(escape_in_snippet(kv[2].s)) \o "}\""
                  ELSE LET dumps == IF for_json THEN JsonDumps(kv[2])
                                    ELSE PyStr(kv[2])
                       IN "${" \o ToString(i) \o ":"
                            \o Str(escape_in_snippet(dumps)) \o "}"
             ELSE "\"$" \o ToString(i) \o "\""
    IN Quoted(k) \o ": " \o v

\* the generator (make_snippet_value(kv) for kv in command_args): the items
\* it yields and the closure's attribute after the last one
RECURSIVE SnippetItems(_, _, _, _)
SnippetItems(command_args, for_json, attr, items) ==
    IF command_args = <<>> THEN [items |-> items, attr |-> attr]
    ELSE LET n == _next_i(attr)
         IN SnippetItems(Tail(command_args), for_json, n.attr,
                Append(items, make_snippet_value(Head(command_args), n.i, for_json)))

\* sep.join(items)
RECURSIVE Join(_, _)
Join(sep, items) ==
    IF items = <<>> THEN ""
    ELSE IF Len(items) = 1 THEN items[1]
    ELSE items[1] \o sep \o Join(sep, Tail(items))

\* the text create_arg_snippet_by_command_args builds around the items
WrapItems(items, for_json) ==
    IF for_json
    THEN "\"args\": {\n\t" \o Join(",\n\t", items) \o "\n},$0"
    ELSE "{" \o Join(", ", items) \o "}"

\* command_args is Unset for None and Some(list) for a list; iterating None
\* raises TypeError
create_arg_snippet_by_command_args(command_args, for_json) ==
    IF ~command_args.set THEN [exc |-> "TypeError"]
    ELSE LET r == SnippetItems(command_args.v, for_json, NewClosureAttr, <<>>)
         IN [exc |-> "", args |-> WrapItems(r.items, for_json),
             items |-> r.items, attr |-> r.attr]

\* The argument lists tried: up to MaxArgs entries.
MaxArgs == 3
ArgEntries == { <<"target">>, <<"count", VInt(1)>>, <<"name", VStr(<<"a", "}">>)>>,
                <<"flag", VBool(TRUE)>>, <<"env", VDict>> }

RECURSIVE ArgLists(_)
ArgLists(n) ==
    IF n = 0 THEN {<<>>}
    ELSE ArgLists(n - 1) \cup
         { <<e>> \o l : e \in ArgEntries, l \in ArgLists(n - 1) }

-----------------------------------------------------------------------------
(* The built-in metadata: get_builtin_command_meta_data *)

\* dict.get(key, default) of a metadata entry
Get(v, key, default) == IF key \in DOMAIN v THEN v[key] ELSE default

\* d[k] = v
Put(d, k, v) == [x \in DOMAIN d \cup {k} |-> IF x = k THEN v ELSE d[x]]

\* A resource source is one of
\*   [kind |-> "oserror"]     load_resource raises OSError
\*   [kind |-> "valueerror"]  decode_value raises ValueError
\*   [kind |-> "null"]        decodes to null (dict.update raises TypeError)
\*   [kind |-> "string"]      decodes to a non-empty string (dict.update
\*                            raises ValueError)
\*   [kind |-> "pairs", m]    decodes to a list of [key, value] pairs
\*   [kind |-> "map", m]      decodes to a mapping
\* with m the entries as a function from names to metadata.

\* result.update(res_content) when res_content is a mapping or a list of pairs
DictUpdate(result, m) ==
    [k \in DOMAIN result \cup DOMAIN m |-> IF k \in DOMAIN m THEN m[k] ELSE result[k]]

\* the body of the loop for one res_path: the table afterwards, or the
\* exception that leaves the try statement
LoadOne(result, res) ==
    CASE res.kind \in {"oserror", "valueerror", "string"} ->
            [exc |-> "", result |-> result]
      [] res.kind = "null" -> [exc |-> "TypeError"]
      [] res.kind \in {"map", "pairs"} ->
            [exc |-> "", result |-> DictUpdate(result, res.m)]

RECURSIVE LoadAll(_, _)
LoadAll(res_paths, result) ==
    IF res_paths = <<>> THEN [exc |-> "", result |-> result]
    ELSE LET one == LoadOne(result, Head(res_paths))
         IN IF one.exc # "" THEN one
            ELSE LoadAll(Tail(res_paths), one.result)

\* get_builtin_command_meta_data(): memo is the attribute result, res the
\* resource sources; gives the exception or the value, and the attribute
\* afterwards.
get_builtin_command_meta_data(memo, res) ==
    IF memo.set THEN [exc |-> "", val |-> memo.v, memo |-> memo]
    ELSE LET r == LoadAll(res, <<>>)
         IN IF r.exc # "" THEN [exc |-> r.exc, memo |-> memo]
            ELSE [exc |-> "", val |-> r.result, memo |-> Some(r.result)]

-----------------------------------------------------------------------------
(* The catalog: get_builtin_commands, get_python_command_classes *)

\* sorted() of names: by code point, character by character
AsciiOrder == Digits \o UpperAlpha \o <<"_">> \o LowerAlpha
Ord(c) == CHOOSE i \in DOMAIN AsciiOrder : AsciiOrder[i] = c

RECURSIVE LexLess(_, _)
LexLess(a, b) ==
    IF b = <<>> THEN FALSE
    ELSE IF a = <<>> THEN TRUE
    ELSE IF Head(a) = Head(b) THEN LexLess(Tail(a), Tail(b))
    ELSE Ord(Head(a)) < Ord(Head(b))

RECURSIVE Sorted(_)
Sorted(S) ==
    IF S = {} THEN <<>>
    ELSE LET least == CHOOSE x \in S : \A y \in S \ {x} : LexLess(x, y)
         IN <<least>> \o Sorted(S \ {least})

CommandTypes == {"", "text", "window", "app"}

\* a slip: every result is stored under the key ""
CacheStore_nokey(cache_, command_type, result) == Put(cache_, "", result)

\* cache[command_type] = result
CacheStore(cache_, command_type, result) == Put(cache_, command_type, result)

\* get_builtin_commands(command_type): gives the exception or the value, and
\* the cache and the metadata attribute afterwards.
get_builtin_commands(command_type, cache_, memo, res) ==
    IF command_type \in DOMAIN cache_
    THEN [exc |-> "", val |-> cache_[command_type], cache |-> cache_, memo |-> memo]
    ELSE LET meta == get_builtin_command_meta_data(memo, res)
         IN IF meta.exc # ""
            THEN [exc |-> meta.exc, cache |-> cache_, memo |-> meta.memo]
            ELSE LET result ==
                        IF command_type = ""
                        THEN Sorted(DOMAIN meta.val)
                        ELSE Sorted({k \in DOMAIN meta.val :
                               Get(meta.val[k], "command_type", "") = command_type})
                 IN [exc |-> "", val |-> result,
                     cache |-> CacheStore(cache_, command_type, result),
                     memo |-> meta.memo]

\* a slip: "" is looked up like any other type and finds no list
get_python_command_classes_nospecial(command_type, cls) ==
    IF command_type \in {"text", "window", "app"} THEN cls[command_type] ELSE <<>>

\* get_python_command_classes(command_type): cls is sublime_plugin's lists;
\* all_command_classes is [application, window, text].
get_python_command_classes(command_type, cls) ==
    IF command_type = ""
    THEN cls.app \o cls.window \o cls.text
    ELSE IF command_type \in {"text", "window", "app"} THEN cls[command_type]
    ELSE <<>>

\* the name a completion inserts for each class
ClassNames(command_classes) ==
    [i \in 1..Len(command_classes) |-> get_command_name(command_classes[i].name)]

-----------------------------------------------------------------------------
(* Resolving a command name: get_args_by_command_name and
   create_arg_snippet_by_command_name *)

\* a slip: the scan keeps the last class with the name
RECURSIVE LastNamed(_, _, _)
LastNamed(command_classes, command_name, found) ==
    IF command_classes = <<>> THEN found
    ELSE LastNamed(Tail(command_classes), command_name,
            IF get_command_name(Head(command_classes).name) = command_name
            THEN Some(Head(command_classes)) ELSE found)

find_class_by_command_name_last(command_name, cls) ==
    LastNamed(cls.app \o cls.window \o cls.text, command_name, Unset)

\* next(c for ... if get_command_name(c) == command_name)
RECURSIVE FirstNamed(_, _)
FirstNamed(command_classes, command_name) ==
    IF command_classes = <<>> THEN Unset
    ELSE IF get_command_name(Head(command_classes).name) = command_name
    THEN Some(Head(command_classes))
    ELSE FirstNamed(Tail(command_classes), command_name)

\* find_class_by_command_name: Unset is None
find_class_by_command_name(command_name, cls) ==
    FirstNamed(cls.app \o cls.window \o cls.text, command_name)

\* get_args_by_command_name: val is Unset for None, Some(list) for a list
get_args_by_command_name(command_name, memo, res, cls) ==
    LET meta == get_builtin_command_meta_data(memo, res)
    IN IF meta.exc # "" THEN [exc |-> meta.exc, memo |-> meta.memo]
       ELSE IF command_name \in DOMAIN meta.val
       THEN [exc |-> "", memo |-> meta.memo,
             val |-> Some(Get(meta.val[command_name], "args", <<>>))]
       ELSE LET command_class == find_class_by_command_name(command_name, cls)
            IN IF ~command_class.set
               THEN [exc |-> "", memo |-> meta.memo, val |-> Unset]
               ELSE [exc |-> "", memo |-> meta.memo,
                     val |-> Some(extract_command_args(command_class.v))]

\* create_arg_snippet_by_command_name: val is Unset for None, Some(text)
\* for a snippet
create_arg_snippet_by_command_name(command_name, memo, res, cls) ==
    LET meta == get_builtin_command_meta_data(memo, res)
    IN IF meta.exc # "" THEN [exc |-> meta.exc, memo |-> meta.memo]
       ELSE LET command_class == find_class_by_command_name(command_name, cls)
                builtin == command_name \in DOMAIN meta.val
            IN IF ~builtin /\ ~command_class.set
               THEN [exc |-> "", memo |-> meta.memo, val |-> Unset]
               ELSE LET command_args ==
                            IF builtin
                            THEN Get(meta.val[command_name], "args", <<>>)
                            ELSE extract_command_args(command_class.v)
                    IN IF Len(command_args) = 0
                       THEN [exc |-> "", memo |-> meta.memo, val |-> Unset]
                       ELSE [exc |-> "", memo |-> meta.memo,
                             val |-> Some(create_arg_snippet_by_command_args(
                                        Some(command_args), TRUE).args)]

-----------------------------------------------------------------------------
(* Scanning the text around the cursor *)

\* \w and \s of the re module, on the characters used here
IsWord(c) == \E i \in DOMAIN AsciiOrder : AsciiOrder[i] = c
IsSpace(c) == c \in {" ", "\n", "\t"}
IsQuote(c) == c \in {"'", "\""}

\* the first index from i on whose character is no word character
RECURSIVE SkipWord(_, _)
SkipWord(t, i) ==
    IF i <= Len(t) /\ IsWord(t[i]) THEN SkipWord(t, i + 1) ELSE i

RECURSIVE SkipSpace(_, _)
SkipSpace(t, i) ==
    IF i <= Len(t) /\ IsSpace(t[i]) THEN SkipSpace(t, i + 1) ELSE i

\* the literal lit stands at index i of t
HasAt(t, i, lit) ==
    /\ i + Len(lit) - 1 <= Len(t)
    /\ SubSeq(t, i, i + Len(lit) - 1) = lit

RunCommandReversed == <<"(","d","n","a","m","m","o","c","_","n","u","r",".">>

\* SublimeTextCommandArgsCompletionPythonListener._RE_LINE_BEFORE.match on
\* the reversed text before the cursor: Unset for no match, else the group
\* command_name, reversed back.
\*   \w*\s*,(?:'|")(?P<command_name>\w+)(?:'|")\(dnammoc_nur\.\w+
MatchLineBefore(before) ==
    LET r == Reverse(before)
        comma == SkipSpace(r, SkipWord(r, 1))
        name1 == comma + 2
        nameEnd == SkipWord(r, name1)
        call == nameEnd + 1
        caller == call + Len(RunCommandReversed)
    IN IF /\ HasAt(r, comma, <<",">>)
          /\ comma + 1 <= Len(r) /\ IsQuote(r[comma + 1])
          /\ nameEnd > name1
          /\ nameEnd <= Len(r) /\ IsQuote(r[nameEnd])
          /\ HasAt(r, call, RunCommandReversed)
          /\ caller <= Len(r) /\ IsWord(r[caller])
       THEN Some(Reverse(SubSeq(r, name1, nameEnd - 1)))
       ELSE Unset

CommandKey == <<"\"","c","o","m","m","a","n","d","\"">>

\* \"command\"\s*\:\s*\"(\w+)\" tried at index i of lines
CommandSearchAt(lines, i) ==
    LET colon == SkipSpace(lines, i + Len(CommandKey))
        quote == SkipSpace(lines, colon + 1)
        name1 == quote + 1
        nameEnd == SkipWord(lines, name1)
    IN IF /\ HasAt(lines, i, CommandKey)
          /\ HasAt(lines, colon, <<":">>)
          /\ HasAt(lines, quote, <<"\"">>)
          /\ nameEnd > name1
          /\ HasAt(lines, nameEnd, <<"\"">>)
       THEN Some(SubSeq(lines, name1, nameEnd - 1))
       ELSE Unset

\* _RE_COMMAND_SEARCH.search(lines): the leftmost match, group 1
CommandSearch(lines) ==
    LET hits == { i \in 1..Len(lines) : CommandSearchAt(lines, i).set }
    IN IF hits = {} THEN Unset
       ELSE CommandSearchAt(lines, CHOOSE i \in hits : \A j \in hits : i <= j)

-----------------------------------------------------------------------------
(* The two argument-completion listeners *)

KeymapDefaultArgs ==
    << <<"args\tArguments", "\"args\": {\n\t\"$1\": \"$2\"$0\n},">> >>
PythonDefaultArgs ==
    << <<"args\tArguments", "{\"$1\": \"$2\"$0}">> >>

\* What a listener call gave: the exception that left it (exc), or the
\* completions returned (out, Unset for None); target is the command name
\* the scan found, memo the metadata attribute afterwards.
Returned(out, target, memo) ==
    [exc |-> "", out |-> out, target |-> target, memo |-> memo]
Raised(exc, target, memo) ==
    [exc |-> exc, out |-> Unset, target |-> target, memo |-> memo]

\* SublimeTextCommandArgsCompletionKeymapListener.on_query_completions
\* view: [scope: score_selector(...) is nonzero, text: the two lines]
KeymapArgsCompletions(view, memo, res, cls) ==
    IF ~view.scope THEN Returned(Unset, Unset, memo)
    ELSE LET m == CommandSearch(view.text)
         IN IF ~m.set THEN Returned(Some(KeymapDefaultArgs), Unset, memo)
            ELSE LET args == create_arg_snippet_by_command_name(m.v, memo, res, cls)
                 IN IF args.exc # "" THEN Raised(args.exc, m, args.memo)
                    ELSE IF ~args.val.set \/ args.val.v = ""
                    THEN Returned(Some(KeymapDefaultArgs), m, args.memo)
                    ELSE Returned(
                           Some(<< <<"args\tauto-detected Arguments", args.val.v>> >>),
                           m, args.memo)

\* a slip: a line that does not match falls back to the default skeleton
PythonNoMatch_default(memo) == Returned(Some(PythonDefaultArgs), Unset, memo)

\* "if not m: return"
PythonNoMatch(memo) == Returned(Unset, Unset, memo)

\* SublimeTextCommandArgsCompletionPythonListener.on_query_completions
\* view: [scope, packages: packages_path() in file_name(), text: the line
\* up to the cursor]
PythonArgsCompletions(view, memo, res, cls) ==
    IF ~view.scope THEN Returned(Unset, Unset, memo)
    ELSE IF ~view.packages THEN Returned(Unset, Unset, memo)
    ELSE LET m == MatchLineBefore(view.text)
         IN IF ~m.set THEN PythonNoMatch(memo)
            ELSE LET command_args == get_args_by_command_name(m.v, memo, res, cls)
                 IN IF command_args.exc # ""
                    THEN Raised(command_args.exc, m, command_args.memo)
                    ELSE LET args == create_arg_snippet_by_command_args(
                                        command_args.val, FALSE)
                         IN IF args.exc # ""
                            THEN Raised(args.exc, m, command_args.memo)
                            ELSE IF args.args = ""
                            THEN Returned(Some(PythonDefaultArgs), m, command_args.memo)
                            ELSE Returned(
                                   Some(<< <<"args\tauto-detected Arguments", args.args>> >>),
                                   m, command_args.memo)

-----------------------------------------------------------------------------
(* The three pure functions, each applied to an input drawn at the start *)

\* The run() signatures tried: up to MaxParams parameters, no name twice,
\* the defaults no longer than the parameters.
MaxParams == 4
ParamNames == {"self", "edit", "target", "count", "extra"}
ParamDefaults == {VInt(1), VStr(<<"x">>)}

RECURSIVE SeqsUpTo(_, _)
SeqsUpTo(S, n) ==
    IF n = 0 THEN {<<>>}
    ELSE SeqsUpTo(S, n - 1) \cup
         { Append(l, e) : e \in S, l \in SeqsUpTo(S, n - 1) }

NoRepeat(s) == \A i, j \in 1..Len(s) : s[i] = s[j] => i = j

Signatures ==
    { sig \in SeqsUpTo(ParamNames, MaxParams) \X SeqsUpTo(ParamDefaults, MaxParams) :
        /\ Len(sig[1]) >= 1
        /\ NoRepeat(sig[1])
        /\ Len(sig[2]) <= Len(sig[1]) }

IdleCanon == clsname = <<>> /\ canonOut = Unset
IdleExtract == exClass = Unset /\ exOut = Unset
IdleSynth ==
    /\ synthArgs = <<>> /\ synthJson = TRUE /\ synthItems = <<>>
    /\ synthOut = Unset /\ nextI = 0
IdleCatalog ==
    /\ resources = <<>> /\ metaResult = Unset /\ cache = <<>>
    /\ classes = [app |-> <<>>, window |-> <<>>, text |-> <<>>]
    /\ returned = [t \in CommandTypes |-> Unset] /\ ret = NoCall

InitCanon ==
    /\ clsname \in Identifiers /\ canonOut = Unset
    /\ IdleExtract /\ IdleSynth /\ IdleCatalog

GetCommandName ==
    /\ canonOut = Unset
    /\ canonOut' = Some(get_command_name(clsname))
    /\ UNCHANGED <<clsname, exVars, synthVars, catVars>>

NextCanon == GetCommandName

SpecCanon == InitCanon /\ [][NextCanon]_vars

InitExtract ==
    /\ \E sig \in Signatures, kind \in {"text", "window", "app"} :
         exClass = Some(Class(<<"X">>, "Pkg.x", kind, sig[1], sig[2]))
    /\ exOut = Unset
    /\ IdleCanon /\ IdleSynth /\ IdleCatalog

ExtractCommandArgs ==
    /\ exOut = Unset
    /\ exOut' = Some(extract_command_args(exClass.v))
    /\ UNCHANGED <<exClass, canonVars, synthVars, catVars>>

NextExtract == ExtractCommandArgs

SpecExtract == InitExtract /\ [][NextExtract]_vars

InitSynth ==
    /\ synthArgs \in ArgLists(MaxArgs) /\ synthJson \in BOOLEAN
    /\ synthItems = <<>> /\ synthOut = Unset /\ nextI = 0
    /\ IdleCanon /\ IdleExtract /\ IdleCatalog

\* one call of create_arg_snippet_by_command_args on a list
Synthesize ==
    /\ synthOut = Unset
    /\ LET r == create_arg_snippet_by_command_args(Some(synthArgs), synthJson)
       IN /\ synthItems' = r.items
          /\ synthOut' = Some(r.args)
          /\ nextI' = r.attr
    /\ UNCHANGED <<synthArgs, synthJson, canonVars, exVars, catVars>>

\* the caller comes back with another list; the old closure is garbage
NextSynthInput ==
    /\ synthOut # Unset
    /\ synthArgs' \in ArgLists(MaxArgs) /\ synthJson' \in BOOLEAN
    /\ synthItems' = <<>> /\ synthOut' = Unset
    /\ UNCHANGED <<nextI, canonVars, exVars, catVars>>

NextSynth == Synthesize \/ NextSynthInput

SpecSynth == InitSynth /\ [][NextSynth]_vars

-----------------------------------------------------------------------------
(* The environment tried: resource sources, command classes, cursor texts *)

nMove == <<"m","o","v","e">>
nClose == <<"c","l","o","s","e">>
nExit == <<"e","x","i","t">>
nNewFile == <<"n","e","w","_","f","i","l","e">>
nFooBar == <<"f","o","o","_","b","a","r">>
nRun == <<"r","u","n">>
nNope == <<"n","o","p","e">>

\* two metadata files
MetaA ==
    (nMove :> [command_type |-> "text",
               args |-> << <<"by">>, <<"forward", VBool(TRUE)>> >>])
    @@ (nClose :> [command_type |-> "window"])
    @@ (nExit :> [command_type |-> "app", args |-> <<>>])
MetaB ==
    (nMove :> [command_type |-> "window", args |-> << <<"to">> >>])
    @@ (nNewFile :> [args |-> << <<"syntax", VStr(<<"a", "}">>)>> >>])

Blob(kind) == [kind |-> kind]
BlobOf(kind, m) == [kind |-> kind, m |-> m]
BlobPool == { Blob("oserror"), Blob("valueerror"), Blob("null"), Blob("string"),
              BlobOf("pairs", MetaB), BlobOf("map", MetaA), BlobOf("map", MetaB) }

\* the resource lists the catalog and the listeners are run against
ResourceChoices ==
    { << BlobOf("map", MetaA) >>,
      << BlobOf("map", MetaA), BlobOf("map", MetaB) >>,
      << BlobOf("map", MetaB), Blob("oserror"), BlobOf("map", MetaA) >>,
      << Blob("valueerror"), Blob("string") >>,
      << BlobOf("map", MetaA), Blob("null") >> }

cFooBarText ==
    Class(<<"F","o","o","B","a","r","C","o","m","m","a","n","d">>, "Pkg.a", "text",
          <<"self", "edit", "target", "count">>, <<VInt(1)>>)
cFooBarOther ==
    Class(<<"F","o","o","B","a","r","C","o","m","m","a","n","d">>, "Other.b", "text", <<"self", "edit", "x">>, <<>>)
cMoveText ==
    Class(<<"M","o","v","e","C","o","m","m","a","n","d">>, "Pkg.a", "text", <<"self", "edit", "by">>, <<>>)
cFooBarWin == Class(<<"F","o","o","B","a","r">>, "Win.w", "window", <<"self">>, <<>>)
cRunApp == Class(<<"R","u","n","C","o","m","m","a","n","d">>, "Pkg.r", "app", <<"self", "cmd">>, <<VNone>>)

\* every list of distinct classes of a pool
RECURSIVE Arrangements(_)
Arrangements(pool) ==
    {<<>>} \cup UNION { { <<c>> \o l : l \in Arrangements(pool \ {c}) } : c \in pool }

Registry(app, window, text) == [app |-> app, window |-> window, text |-> text]
NoClasses == Registry(<<>>, <<>>, <<>>)

Registries ==
    { Registry(a, w, t) :
        a \in Arrangements({cRunApp}),
        w \in Arrangements({cFooBarWin}),
        t \in Arrangements({cFooBarText, cFooBarOther})
              \cup {<<cMoveText>>, <<cMoveText, cFooBarText>>} }

NamePool == { nMove, nClose, nExit, nNewFile, nFooBar, nRun, nNope }

KeymapPrefix == <<"\"","c","o","m","m","a","n","d","\"",":"," ","\"">>
KeymapSuffix == <<"\"",",","\n","\t">>

\* the two lines a binding document shows the keymap listener
KeymapTexts ==
    { KeymapPrefix \o n \o KeymapSuffix : n \in NamePool }
    \cup { <<"{"," ","\"","c","o","m","m","a","n","d","\""," ",":","\"">> \o n \o <<"\"",","," ">> : n \in {nMove, nNope} }
    \cup { <<"\"","k","e","y","s","\"",":"," ","[","\"","a","\"","]",",","\n","\t">>, <<"\"","c","o","m","m","a","n","d","\"",":"," ","\"","\"",",","\n">>, <<"\"","c","o","m","m","a","n","d","\"",":"," ","m","o","v","e",","," ">> }
\* the listener is asked in every text inside the scope, and once outside
KeymapViews ==
    { [scope |-> TRUE, text |-> t] : t \in KeymapTexts }
    \cup { [scope |-> FALSE, text |-> KeymapPrefix \o nMove \o KeymapSuffix] }

PythonPrefix == <<"v","i","e","w",".","r","u","n","_","c","o","m","m","a","n","d","(","\"">>
PythonSuffix == <<"\"",","," ">>

\* the line up to the cursor a plugin file shows the Python listener
PythonTexts ==
    { PythonPrefix \o n \o PythonSuffix : n \in NamePool }
    \cup { <<"w",".","r","u","n","_","c","o","m","m","a","n","d","(","'">> \o n \o <<"'",",","\t","a","r">> : n \in {nMove, nFooBar, nNope} }
    \cup { <<"v","i","e","w",".","r","u","n","_","c","o","m","m","a","n","d","(","\"","m","o","v","e","\"">>, <<"f","o","o","(","\"","m","o","v","e","\"",","," ">>, <<"v","i","e","w",".","r","u","n","_","c","o","m","m","a","n","d","(","n","a","m","e",","," ">>, <<".","r","u","n","_","c","o","m","m","a","n","d","(","\"","m","o","v","e","\"",","," ">>, <<"v","i","e","w",".","r","u","n","_","c","o","m","m","a","n","d","(","\"","m","o","v","e","\"",","," ","{">> }
PythonViews ==
    { [scope |-> TRUE, packages |-> TRUE, text |-> t] : t \in PythonTexts }
    \cup { [scope |-> sc, packages |-> pk,
            text |-> PythonPrefix \o nMove \o PythonSuffix] :
              sc \in BOOLEAN, pk \in BOOLEAN }

-----------------------------------------------------------------------------
(* Building the metadata table, on every short list of resource sources *)

MaxRes == 2
ResourceLists == SeqsUpTo(BlobPool, MaxRes)

NothingReturned == [t \in CommandTypes |-> Unset]

InitMeta ==
    /\ resources \in ResourceLists
    /\ metaResult = Unset /\ cache = <<>> /\ classes = NoClasses
    /\ returned = NothingReturned /\ ret = NoCall
    /\ IdleCanon /\ IdleExtract /\ IdleSynth

\* one call of get_builtin_command_meta_data()
CallMetaData ==
    /\ LET r == get_builtin_command_meta_data(metaResult, resources)
       IN /\ metaResult' = r.memo
          /\ ret' = IF r.exc # ""
                    THEN [op |-> "meta", built |-> ~metaResult.set,
                          res |-> resources, exc |-> r.exc]
                    ELSE [op |-> "meta", built |-> ~metaResult.set,
                          res |-> resources, exc |-> "", val |-> r.val]
    /\ UNCHANGED <<resources, cache, classes, returned,
                   canonVars, exVars, synthVars>>

\* packages are installed, removed or edited: the resource sources change
SetResources(S) ==
    /\ \E rs \in S : rs # resources /\ resources' = rs
    /\ UNCHANGED <<metaResult, cache, classes, returned, ret,
                   canonVars, exVars, synthVars>>

NextMeta == CallMetaData \/ SetResources(ResourceLists)

SpecMeta == InitMeta /\ [][NextMeta]_vars

-----------------------------------------------------------------------------
(* The catalog while packages come and go *)

InitCatalog ==
    /\ resources \in ResourceChoices
    /\ metaResult = Unset /\ cache = <<>> /\ classes = NoClasses
    /\ returned = NothingReturned /\ ret = NoCall
    /\ IdleCanon /\ IdleExtract /\ IdleSynth

\* lookup(command_type): the names of get_builtin_commands(command_type)
\* and of get_python_command_classes(command_type)
Lookup(command_type) ==
    /\ LET command_classes == get_python_command_classes(command_type, classes)
           b == get_builtin_commands(command_type, cache, metaResult, resources)
       IN /\ cache' = b.cache
          /\ metaResult' = b.memo
          /\ ret' = [op |-> "lookup", key |-> command_type, exc |-> b.exc]
          /\ returned' =
                IF b.exc # "" THEN returned
                ELSE [returned EXCEPT ![command_type] =
                        Some([builtin |-> b.val, user |-> ClassNames(command_classes)])]
    /\ UNCHANGED <<resources, classes, canonVars, exVars, synthVars>>

CatalogPool == {cFooBarText, cFooBarWin, cRunApp}

Loaded(c) == \E i \in 1..Len(classes[c.kind]) : classes[c.kind][i] = c

\* sublime_plugin loads a plugin: the class joins the list of its type
LoadPlugin(c) ==
    /\ ~Loaded(c)
    /\ classes' = [classes EXCEPT ![c.kind] = Append(@, c)]
    /\ UNCHANGED <<resources, metaResult, cache, returned, ret,
                   canonVars, exVars, synthVars>>

\* sublime_plugin unloads a plugin: the class leaves the list
UnloadPlugin(c) ==
    /\ Loaded(c)
    /\ classes' = [classes EXCEPT ![c.kind] = SelectSeq(@, LAMBDA x : x # c)]
    /\ UNCHANGED <<resources, metaResult, cache, returned, ret,
                   canonVars, exVars, synthVars>>

NextCatalog ==
    \/ \E t \in CommandTypes : Lookup(t)
    \/ SetResources(ResourceChoices)
    \/ \E c \in CatalogPool : LoadPlugin(c)
    \/ \E c \in CatalogPool : UnloadPlugin(c)

SpecCatalog == InitCatalog /\ [][NextCatalog]_vars

-----------------------------------------------------------------------------
(* The listeners and the name resolution, in a fixed environment *)

InitQuery ==
    /\ resources \in ResourceChoices
    /\ classes \in Registries
    /\ metaResult = Unset /\ cache = <<>>
    /\ returned = NothingReturned /\ ret = NoCall
    /\ IdleCanon /\ IdleExtract /\ IdleSynth

Answer(op, view, r) ==
    /\ metaResult' = r.memo
    /\ ret' = [op |-> op, view |-> view, exc |-> r.exc, out |-> r.out,
               target |-> r.target]
    /\ UNCHANGED <<resources, cache, classes, returned,
                   canonVars, exVars, synthVars>>

KeymapArgsQuery ==
    \E view \in KeymapViews :
        Answer("keymap_args", view,
               KeymapArgsCompletions(view, metaResult, resources, classes))

PythonArgsQuery ==
    \E view \in PythonViews :
        Answer("python_args", view,
               PythonArgsCompletions(view, metaResult, resources, classes))

\* one call of get_args_by_command_name(command_name)
GetArgsByCommandName ==
    \E command_name \in NamePool :
        LET r == get_args_by_command_name(command_name, metaResult, resources, classes)
        IN /\ metaResult' = r.memo
           /\ ret' = IF r.exc # ""
                     THEN [op |-> "resolve", name |-> command_name, exc |-> r.exc]
                     ELSE [op |-> "resolve", name |-> command_name, exc |-> "",
                           val |-> r.val]
           /\ UNCHANGED <<resources, cache, classes, returned,
                          canonVars, exVars, synthVars>>

NextQuery == KeymapArgsQuery \/ PythonArgsQuery \/ GetArgsByCommandName

SpecQuery == InitQuery /\ [][NextQuery]_vars

-----------------------------------------------------------------------------
(* Properties of get_command_name *)

sFooBarCommand == <<"F","o","o","B","a","r","C","o","m","m","a","n","d">>
sRunCommand == <<"R","u","n","C","o","m","m","a","n","d">>

\* What position i of the identifier contributes, read off the identifier
\* alone. firstCounts: whether an uppercase first character makes the second
\* character "preceded by an uppercase character".
CanonPiece(cls, i, firstCounts) ==
    IF i = 1 THEN <<Lower(cls[1])>>
    ELSE LET afterUpper == IF i = 2 THEN firstCounts /\ IsUpper(cls[1])
                           ELSE IsUpper(cls[i - 1])
         IN IF IsUpper(cls[i]) /\ ~afterUpper
            THEN <<"_", Lower(cls[i])>>
            ELSE <<cls[i]>>

CanonDescribed(cls, firstCounts) ==
    LET walked == Flatten([i \in 1..Len(cls) |-> CanonPiece(cls, i, firstCounts)])
    IN IF EndsWith(walked, CommandSuffix)
       THEN SubSeq(walked, 1, Len(walked) - Len(CommandSuffix))
       ELSE walked

\* C4 as stated: the first character lowercased; every later uppercase
\* character not preceded by an uppercase character, the first character
\* counting as a predecessor, becomes "_" and its lowercase form; the others
\* are kept; one trailing "_command" is removed.
C4_AsStated ==
    canonOut.set => canonOut.v = CanonDescribed(clsname, TRUE)

\* C4 amended: as C4, but the case of the first character is not looked at:
\* an uppercase second character always becomes "_" and its lowercase form.
\* FooBarCommand gives foo_bar and RunCommand gives run.
C4_Canonicalize ==
    canonOut.set =>
        /\ canonOut.v = CanonDescribed(clsname, FALSE)
        /\ clsname = sFooBarCommand => canonOut.v = <<"f","o","o","_","b","a","r">>
        /\ clsname = sRunCommand => canonOut.v = <<"r","u","n">>

\* an identifier that starts with two uppercase characters has been converted
C4_Witness ==
    /\ clsname = <<"H","T","T","P","F","o","o","C","o","m","m","a","n","d">>
    /\ canonOut = Some(<<"h","_","t","T","P","F","o","o">>)

-----------------------------------------------------------------------------
(* Properties of extract_command_args *)

\* C10: the parameters in declaration order, the last d of them paired with
\* the d defaults, after dropping the first two parameters of a text command
\* and the first one of any other; (self, edit, target, count=1) of a text
\* command gives [("target",), ("count", 1)].
C10_ExtractArgs ==
    exOut.set =>
        LET c == exClass.v
            n == Len(c.args)
            d == Len(c.defaults)
            drop == IF c.kind = "text" THEN 2 ELSE 1
            left == IF n > drop THEN n - drop ELSE 0
        IN /\ Len(exOut.v) = left
           /\ \A j \in 1..left :
                LET p == j + drop
                IN exOut.v[j] = IF p > n - d
                                THEN <<c.args[p], c.defaults[p - (n - d)]>>
                                ELSE <<c.args[p]>>

\* the example of the specification has been extracted
C10_Witness ==
    /\ exClass.set
    /\ exClass.v.kind = "text"
    /\ exClass.v.args = <<"self", "edit", "target", "count">>
    /\ exClass.v.defaults = <<VInt(1)>>
    /\ exOut = Some(<< <<"target">>, <<"count", VInt(1)>> >>)

-----------------------------------------------------------------------------
(* Properties of create_arg_snippet_by_command_args *)

\* C8 as stated: an entry without a default gives the empty placeholder in
\* quotes in a structured-literal snippet and without quotes in a
\* call-literal snippet.
C8_AsStated ==
    synthOut.set =>
        \A k \in 1..Len(synthArgs) :
            Len(synthArgs[k]) = 1 =>
                synthItems[k] =
                    Quoted(synthArgs[k][1]) \o ": " \o
                        (IF synthJson THEN "\"$" \o ToString(k) \o "\""
                         ELSE "$" \o ToString(k))

\* C8 amended: an entry without a default gives the empty placeholder in
\* quotes, in a structured-literal and in a call-literal snippet alike.
C8_PlaceholderQuoted ==
    synthOut.set =>
        \A k \in 1..Len(synthArgs) :
            Len(synthArgs[k]) = 1 =>
                synthItems[k] =
                    Quoted(synthArgs[k][1]) \o ": \"$" \o ToString(k) \o "\""

\* a call-literal snippet with an entry without a default has been built
C8_Witness ==
    /\ ~synthJson
    /\ synthArgs = << <<"count", VInt(1)>>, <<"target">> >>
    /\ synthOut = Some("{\"count\": ${1:1}, \"target\": \"$2\"}")

\* C9: the k-th entry of a call gets placeholder index k, with or without a
\* default, and the index starts at 1 in every call, whatever calls came
\* before.
C9_PlaceholderIndex ==
    synthOut.set =>
        /\ Len(synthItems) = Len(synthArgs)
        /\ \A k \in 1..Len(synthArgs) :
             synthItems[k] = make_snippet_value(synthArgs[k], k, synthJson)
        /\ synthOut.v = WrapItems(synthItems, synthJson)
        /\ nextI = IF synthArgs = <<>> THEN 0 ELSE Len(synthArgs) + 1

\* the example of the specification has been built
C9_Witness ==
    /\ synthJson
    /\ synthArgs = << <<"target">>, <<"count", VInt(1)>> >>
    /\ synthOut = Some("\"args\": {\n\t\"target\": \"$1\",\n\t\"count\": ${2:1}\n},$0")

-----------------------------------------------------------------------------
(* Properties of the metadata table *)

\* the entry of key k in the last mapping source that has it
LastEntry(res, k) ==
    LET having == { i \in 1..Len(res) : res[i].kind = "map" /\ k \in DOMAIN res[i].m }
    IN res[CHOOSE i \in having : \A j \in having : j <= i].m[k]

\* the sources that load and decode to a mapping, overwritten in order
MergedMappings(res) ==
    [k \in UNION { DOMAIN res[i].m : i \in { j \in 1..Len(res) : res[j].kind = "map" } }
        |-> LastEntry(res, k)]

\* C7: building the table never fails; a source that cannot be loaded or
\* does not decode to a mapping is skipped, and the table is the overwrite
\* of the other sources in order, the last source of a key winning.
C7_AsStated ==
    (ret.op = "meta" /\ ret.built) =>
        /\ ret.exc = ""
        /\ ret.val = MergedMappings(ret.res)

-----------------------------------------------------------------------------
(* Properties of the catalog *)

\* C2 as stated: once lookup(t) has been computed, every later lookup(t)
\* returns the identical name list, whatever lookups and whatever changes of
\* the resource sources and of the registered user commands lie between.
C2_AsStated ==
    [][\A t \in CommandTypes : returned[t].set => returned'[t] = returned[t]]_vars

\* C2 amended: once lookup(t) has been computed, every later lookup(t)
\* returns the identical list of built-in names, whatever lookups and
\* whatever changes of the resource sources and of the registered user
\* commands lie between (the user names are read from the registered lists
\* at each lookup); the cache entry of a key is written at most once and
\* never changed or removed, and a lookup creates no entry but that of its
\* own key.
C2_BuiltinMemoized ==
    [][\A t \in CommandTypes :
          /\ returned[t].set =>
                /\ returned'[t].set
                /\ returned'[t].v.builtin = returned[t].v.builtin
          /\ returned'[t].set =>
                /\ t \in DOMAIN cache'
                /\ returned'[t].v.builtin = cache'[t]
          /\ t \in DOMAIN cache => t \in DOMAIN cache' /\ cache'[t] = cache[t]
          /\ (t \notin DOMAIN cache /\ t \in DOMAIN cache') =>
                /\ ret'.op = "lookup" /\ ret'.key = t
                /\ DOMAIN cache' = DOMAIN cache \cup {t}]_vars

\* every key has been looked up, and the resource sources and the user
\* commands have changed since
C2_Witness ==
    /\ DOMAIN cache = CommandTypes
    /\ \A t \in CommandTypes : returned[t].set
    /\ metaResult = Some(MergedMappings(<< BlobOf("map", MetaA) >>))
    /\ resources = << BlobOf("map", MetaA), BlobOf("map", MetaB) >>
    /\ cache["text"] = <<nMove>>
    /\ returned[""].v.user = <<>>
    /\ classes.text = <<cFooBarText>>

Range(s) == { s[i] : i \in 1..Len(s) }

\* the names lookup(t) returns when asked now
LookupNow(t) ==
    LET b == get_builtin_commands(t, cache, metaResult, resources)
    IN [exc |-> b.exc,
        builtin |-> IF b.exc = "" THEN Range(b.val) ELSE {},
        user |-> Range(ClassNames(get_python_command_classes(t, classes)))]

\* C3: for one metadata table and one registration of user commands, every
\* name lookup("text"), lookup("window") and lookup("app") return is among
\* the names lookup("") returns, built-in names and user commands alike.
C3_UnfilteredIsSuperset ==
    \A t \in {"text", "window", "app"} :
        (LookupNow(t).exc = "" /\ LookupNow("").exc = "") =>
            /\ LookupNow(t).builtin \subseteq LookupNow("").builtin
            /\ LookupNow(t).user \subseteq LookupNow("").user

\* a filtered lookup returns a built-in name and a user command, and the
\* unfiltered one returns more
C3_Witness ==
    /\ LookupNow("text").exc = ""
    /\ LookupNow("text").builtin = {nMove}
    /\ LookupNow("text").user = {nFooBar}
    /\ LookupNow("").builtin = {nMove, nClose, nExit}
    /\ LookupNow("").user = {nFooBar, nRun}
    /\ "text" \in DOMAIN cache /\ "" \in DOMAIN cache

-----------------------------------------------------------------------------
(* Properties of the name resolution and of the listeners *)

DefaultArgsOf(op) ==
    IF op = "keymap_args" THEN KeymapDefaultArgs ELSE PythonDefaultArgs

\* C1: an argument query whose command name resolves to no descriptor, or
\* to a descriptor with no arguments, raises nothing and returns exactly the
\* default skeleton of its listener.
C1_AsStated ==
    (ret.op \in {"keymap_args", "python_args"} /\ ret.target.set) =>
        LET r == get_args_by_command_name(ret.target.v, metaResult, resources, classes)
        IN (r.exc = "" /\ (~r.val.set \/ r.val.v = <<>>)) =>
              /\ ret.exc = ""
              /\ ret.out = Some(DefaultArgsOf(ret.op))

AllClasses == classes.app \o classes.window \o classes.text

\* C5: a name of the built-in metadata resolves to the metadata's args,
\* unmodified, and to no arguments when it has no args, whether or not a
\* user command has the name; any other name resolves to the first user
\* command, in the order of the registered lists, whose canonical name it
\* is; and the result is not-found exactly when neither has the name.
C5_Resolve ==
    (ret.op = "resolve" /\ ret.exc = "") =>
        LET table == metaResult.v
            name == ret.name
            named == { i \in 1..Len(AllClasses) :
                         get_command_name(AllClasses[i].name) = name }
        IN /\ metaResult.set
           /\ name \in DOMAIN table =>
                ret.val = Some(IF "args" \in DOMAIN table[name]
                               THEN table[name].args ELSE <<>>)
           /\ (name \notin DOMAIN table /\ named # {}) =>
                \E i \in named :
                    /\ \A j \in named : i <= j
                    /\ ret.val = Some(extract_command_args(AllClasses[i]))
           /\ ~ret.val.set <=> (name \notin DOMAIN table /\ named = {})

\* two user commands have the name, and the first one registered is found
C5_Witness ==
    /\ ret.op = "resolve" /\ ret.exc = "" /\ ret.name = nFooBar
    /\ classes.window = <<>>
    /\ classes.text = <<cFooBarOther, cFooBarText>>
    /\ ret.val = Some(<< <<"x">> >>)

InCallContext(r) ==
    /\ r.op = "python_args"
    /\ r.view.scope /\ r.view.packages

\* C6 as stated: in a call expression of a file under the packages path,
\* when the scan before the cursor finds no run_command call with a quoted
\* name, the listener offers the default skeleton.
C6_AsStated ==
    (InCallContext(ret) /\ ~MatchLineBefore(ret.view.text).set) =>
        ret.out = Some(PythonDefaultArgs)

\* C6 amended: in a call expression of a file under the packages path, when
\* the scan before the cursor finds no run_command call with a quoted name,
\* the listener returns no completions and raises nothing.
C6_NoMatchNoCompletions ==
    (InCallContext(ret) /\ ~MatchLineBefore(ret.view.text).set) =>
        /\ ret.exc = ""
        /\ ~ret.out.set
        /\ ~ret.target.set

\* the cursor is in a call of another function
C6_Witness ==
    /\ InCallContext(ret)
    /\ ret.view.text = <<"f","o","o","(","\"","m","o","v","e","\"",","," ">>
    /\ ret.out = Unset

====
